---- MODULE Spec2Model ----
(***************************************************************************)
(* The log reader of the metrics collector (collector/log.go): the prefix  *)
(* compiler, the timestamp decoders, the backward block scan and the       *)
(* forward pass of readLogLines, the entry assembler processLogLine and    *)
(* the classifier processLogEntry with its three extractors.               *)
(*                                                                         *)
(* A file is a sequence of bytes.  The bytes of the model are strings:     *)
(*   "0" "1" "2"  decimal digits, "."  the dot                             *)
(*   "T1" "T2"    a whole `%t' timestamp text (`2024-01-15 10:30:01 UTC')   *)
(*                that time.Parse decodes to the instant 1, 2              *)
(*   "T?"         a text the `%t' pattern matches and time.Parse rejects   *)
(*                (`2024-13-45 10:30:00 UTC')                              *)
(*   "M1" "M?"    the same for `%m' (`2024-01-15 10:30:00.001 UTC')        *)
(*   "E"          the rest of a line `ERROR:  deadlock detected\n'         *)
(*   "D"          the rest of a line `DETAIL:  Process 1 waits ...\n'      *)
(*   " "          a space                                                  *)
(* Instants are whole seconds since the epoch; ZeroTime is time.Time{}.    *)
(***************************************************************************)
EXTENDS Integers, Sequences, FiniteSets, TLC

(***************************************************************************)
(* Bounds of the model.                                                    *)
(***************************************************************************)
\* characters of a log_line_prefix setting
MaxFormat == 4
\* bytes of a text handed to the timestamp decoders
MaxText == 3
\* lines per log file
MaxLines == 4
\* readLogLines invocations on one collector
MaxReads == 2
\* forward-loop iterations the model follows in one invocation
MaxIters == 14
\* bytes of one block of the backward scan (4096 in the source, line 69)
BlockSize == 5
\* calls the handler driver makes on one collector
MaxCalls == 4

(***************************************************************************)
(* Byte classes and library functions.                                     *)
(***************************************************************************)
Digits == {"0", "1", "2"}

TStamps == {"T1", "T2", "T?"}

MStamps == {"M1", "M?"}

\* [A-Za-z0-9_.\[\]-]
NameChars == Digits \cup {"."}

\* \S
NonSpace == Digits \cup {"."}

NameMax == 64

ZeroTime == -1

DigitVal(c) == CASE c = "0" -> 0 [] c = "1" -> 1 [] c = "2" -> 2 [] OTHER -> 0

\* strconv.ParseInt(s, 10, 64) of a digit string (the values of the model
\* are far below 2^63, so the range error does not arise)
RECURSIVE ParseInt(_)
ParseInt(s) ==
    IF s = <<>> THEN [err |-> TRUE, v |-> 0]
    ELSE IF \E k \in 1..Len(s) : s[k] \notin Digits THEN [err |-> TRUE, v |-> 0]
    ELSE IF Len(s) = 1 THEN [err |-> FALSE, v |-> DigitVal(s[1])]
    ELSE [err |-> FALSE,
          v |-> 10 * ParseInt(SubSeq(s, 1, Len(s) - 1)).v + DigitVal(s[Len(s)])]

\* strings.Split(s, ".")
RECURSIVE Split(_)
SplitAt(s, k) == <<SubSeq(s, 1, k - 1)>> \o Split(SubSeq(s, k + 1, Len(s)))

Split(s) ==
    IF \A k \in 1..Len(s) : s[k] # "." THEN <<s>>
    ELSE SplitAt(s, CHOOSE j \in 1..Len(s) :
                        s[j] = "." /\ \A h \in 1..(j - 1) : s[h] # ".")

\* time.Parse(layout, s): layout "t" is "2006-01-02 15:04:05 MST",
\* layout "m" is "2006-01-02 15:04:05.000 MST"
ParseTime(layout, s) ==
    IF layout = "t" /\ s = <<"T1">> THEN [err |-> FALSE, t |-> 1]
    ELSE IF layout = "t" /\ s = <<"T2">> THEN [err |-> FALSE, t |-> 2]
    ELSE IF layout = "m" /\ s = <<"M1">> THEN [err |-> FALSE, t |-> 1]
    ELSE [err |-> TRUE, t |-> ZeroTime]

\* time.Unix(sec, nsec) with nsec = int64(float64(t2) * 1e9): t2 whole
\* seconds worth of nanoseconds, which time.Unix carries into the seconds
TimeUnix(t1, t2) == t1 + t2

(***************************************************************************)
(* compilePrefix: the pattern is a sequence of atoms; the atoms from       *)
(* index opt on are inside the optional group `(?: ... )?' that %q opens.  *)
(***************************************************************************)
Atom(kind, ch) == [k |-> kind, c |-> ch]

DirectiveAtom(ch) ==
    CASE ch = "t" -> Atom("t", "")
      [] ch = "m" -> Atom("m", "")
      [] ch = "n" -> Atom("n", "")
      [] ch = "s" -> Atom("s", "")
      [] ch = "u" -> Atom("u", "")
      [] ch = "d" -> Atom("d", "")
      [] OTHER    -> Atom("o", "")

\* the loop of compilePrefix from index i (1-based) on; nq counts the `(?:'
\* written so far and opt is where the first of them stands
RECURSIVE CompileFrom(_, _, _)
CompileFrom(prefix, i, acc) ==
    IF i > Len(prefix) THEN acc
    ELSE IF prefix[i] # "%"
         THEN CompileFrom(prefix, i + 1,
                  [acc EXCEPT !.atoms = Append(@, Atom("lit", prefix[i]))])
    ELSE IF i + 1 > Len(prefix) THEN acc
    ELSE IF prefix[i + 1] = "q"
         THEN CompileFrom(prefix, i + 2,
                  [acc EXCEPT !.nq = @ + 1,
                              !.opt = IF acc.nq = 0 THEN Len(acc.atoms) + 1 ELSE @])
    ELSE CompileFrom(prefix, i + 2,
             [acc EXCEPT !.atoms = Append(@, DirectiveAtom(prefix[i + 1])),
                         !.ts = @ \/ prefix[i + 1] \in {"t", "m", "n"}])

\* Compiled with the pattern handed to regexp.Compile before the timestamp
\* flag is looked at
CompiledRegexpFirst(acc) ==
    IF acc.nq > 1 THEN [err |-> "regexp", atoms |-> <<>>, opt |-> 1]
    ELSE IF ~acc.ts THEN [err |-> "nots", atoms |-> <<>>, opt |-> 1]
    ELSE [err |-> "", atoms |-> acc.atoms,
          opt |-> IF acc.nq = 0 THEN Len(acc.atoms) + 1 ELSE acc.opt]

\* err is "" on success, "nots" for the missing timestamp directive and
\* "regexp" when regexp.Compile rejects the pattern: every %q writes a
\* `(?:' and only one `)?' closes them
Compiled(acc) ==
    IF ~acc.ts THEN [err |-> "nots", atoms |-> <<>>, opt |-> 1]
    ELSE IF acc.nq > 1 THEN [err |-> "regexp", atoms |-> <<>>, opt |-> 1]
    ELSE [err |-> "", atoms |-> acc.atoms,
          opt |-> IF acc.nq = 0 THEN Len(acc.atoms) + 1 ELSE acc.opt]

compilePrefix(prefix) ==
    Compiled(CompileFrom(prefix, 1, [atoms |-> <<>>, ts |-> FALSE, nq |-> 0, opt |-> 0]))

(***************************************************************************)
(* The regexp engine: leftmost-first matching of an atom sequence.         *)
(* Offsets are those of Go: byte i of buf is buf[i + 1].                   *)
(***************************************************************************)
\* the end of the longest run of bytes of class cls that starts at offset i
RECURSIVE RunEnd(_, _, _)
RunEnd(buf, i, cls) ==
    IF i < Len(buf) /\ buf[i + 1] \in cls THEN RunEnd(buf, i + 1, cls) ELSE i

Min(a, b) == IF a < b THEN a ELSE b

\* hi, hi - 1, ..., lo
Desc(hi, lo) == [k \in 1..(hi - lo + 1) |-> hi - k + 1]

\* \d+\.\d+ from offset i, d the end of the first run of digits
EpochEnds(buf, i, d) ==
    IF d > i /\ d < Len(buf) /\ buf[d + 1] = "."
    THEN Desc(RunEnd(buf, d + 1, Digits), d + 2)
    ELSE <<>>

\* where a match of atom a that starts at offset i may end, the preferred
\* (greedy) end first
CandEnds(a, buf, i) ==
    CASE a.k = "lit" ->
           IF i < Len(buf) /\ buf[i + 1] = a.c THEN <<i + 1>> ELSE <<>>
      [] a.k \in {"t", "s"} ->
           IF i < Len(buf) /\ buf[i + 1] \in TStamps THEN <<i + 1>> ELSE <<>>
      [] a.k = "m" ->
           IF i < Len(buf) /\ buf[i + 1] \in MStamps THEN <<i + 1>> ELSE <<>>
      [] a.k = "n" -> EpochEnds(buf, i, RunEnd(buf, i, Digits))
      [] a.k \in {"u", "d"} ->
           Desc(Min(RunEnd(buf, i, NameChars), i + NameMax), i + 1)
      [] OTHER ->
           Desc(RunEnd(buf, i, NonSpace), i)

NoMatch == [ok |-> FALSE, ends |-> <<>>]

\* atoms k..last matched from offset i: the end offset of each atom
RECURSIVE MatchSeq(_, _, _, _, _)
RECURSIVE FirstOK(_, _, _, _, _, _)
MatchSeq(atoms, k, last, buf, i) ==
    IF k > last THEN [ok |-> TRUE, ends |-> <<>>]
    ELSE FirstOK(atoms, k, last, buf, CandEnds(atoms[k], buf, i), 1)

RECURSIVE TryEnd(_, _, _, _, _, _, _)
FirstOK(atoms, k, last, buf, cands, j) ==
    IF j > Len(cands) THEN NoMatch
    ELSE TryEnd(atoms, k, last, buf, cands, j,
                MatchSeq(atoms, k + 1, last, buf, cands[j]))

TryEnd(atoms, k, last, buf, cands, j, r) ==
    IF r.ok THEN [ok |-> TRUE, ends |-> <<cands[j]>> \o r.ends]
    ELSE FirstOK(atoms, k, last, buf, cands, j + 1)

LastOr(ends, i) == IF ends = <<>> THEN i ELSE ends[Len(ends)]

\* the mandatory atoms have matched (pre): the optional group is taken when
\* it matches where they end
WithGroup(re, i, pre, grp) ==
    IF re.opt <= Len(re.atoms) /\ grp.ok
    THEN [ok |-> TRUE, s |-> i, ends |-> pre.ends \o grp.ends]
    ELSE [ok |-> TRUE, s |-> i, ends |-> pre.ends]

AfterPre(re, buf, i, pre) ==
    IF ~pre.ok THEN [ok |-> FALSE, s |-> i, ends |-> <<>>]
    ELSE WithGroup(re, i, pre,
                   MatchSeq(re.atoms, re.opt, Len(re.atoms), buf, LastOr(pre.ends, i)))

\* the pattern matched at offset i
MatchAt(re, buf, i) == AfterPre(re, buf, i, MatchSeq(re.atoms, 1, re.opt - 1, buf, i))

RECURSIVE FindFrom(_, _, _)
FirstMatch(re, buf, i, m) == IF m.ok THEN m ELSE FindFrom(re, buf, i + 1)

FindFrom(re, buf, i) ==
    IF i > Len(buf) THEN [ok |-> FALSE, s |-> 0, ends |-> <<>>]
    ELSE FirstMatch(re, buf, i, MatchAt(re, buf, i))

MatchEnd(m) == LastOr(m.ends, m.s)

IndexOf(m) == IF m.ok THEN <<m.s, MatchEnd(m)>> ELSE <<>>

\* (*Regexp).FindIndex: <<start, end>>, or <<>> for nil
FindIndex(re, buf) == IndexOf(FindFrom(re, buf, 0))

SubmatchOf(re, buf, m) ==
    IF ~m.ok THEN <<>>
    ELSE [k \in 1..Len(re.atoms) |->
             IF k > Len(m.ends) THEN <<>>
             ELSE SubSeq(buf, (IF k = 1 THEN m.s ELSE m.ends[k - 1]) + 1, m.ends[k])]

\* (*Regexp).FindSubmatch: the text each atom captured (empty for an atom
\* of the optional group that did not take part), or <<>> for nil
FindSubmatch(re, buf) == SubmatchOf(re, buf, FindFrom(re, buf, 0))

\* the index of the last subexpression named kind, 0 for the -1 of the code
SubexpIndex(re, kind) ==
    IF \E k \in 1..Len(re.atoms) : re.atoms[k].k = kind
    THEN CHOOSE k \in 1..Len(re.atoms) :
             /\ re.atoms[k].k = kind
             /\ \A h \in (k + 1)..Len(re.atoms) : re.atoms[h].k # kind
    ELSE 0

CaptureAt(match, idx) == IF idx = 0 THEN <<>> ELSE match[idx]

\* the captured text of the last subexpression named kind, "" when none
NamedCapture(match, re, kind) == CaptureAt(match, SubexpIndex(re, kind))

(***************************************************************************)
(* The two timestamp decoders.                                             *)
(***************************************************************************)
\* lines 308-324 of getMatchData: the %n text split on the dot
matchEpoch(parts, t1, t2) ==
    IF Len(parts) < 1 \/ Len(parts) > 2 THEN [t |-> ZeroTime, err |-> TRUE]
    ELSE IF t1.err THEN [t |-> ZeroTime, err |-> TRUE]
    ELSE IF t2.err THEN [t |-> ZeroTime, err |-> TRUE]
    ELSE [t |-> TimeUnix(t1.v, t2.v), err |-> FALSE]

matchEpochParts(parts) ==
    matchEpoch(parts, ParseInt(parts[1]),
               IF Len(parts) = 2 THEN ParseInt(parts[2]) ELSE [err |-> FALSE, v |-> 0])

\* lines 303-325 of getMatchData, the indices found
matchTime(match, idxT, idxM, idxN) ==
    IF idxM # 0 /\ Len(match[idxM]) > 0 THEN ParseTime("m", match[idxM])
    ELSE IF idxT # 0 /\ Len(match[idxT]) > 0 THEN ParseTime("t", match[idxT])
    ELSE IF idxN # 0 /\ Len(match[idxN]) > 0 THEN matchEpochParts(Split(match[idxN]))
    ELSE [t |-> ZeroTime, err |-> FALSE]

matchData(p, user, db) == [t |-> p.t, user |-> user, db |-> db, err |-> p.err]

getMatchData(match, re) ==
    matchData(matchTime(match, SubexpIndex(re, "t"), SubexpIndex(re, "m"),
                        SubexpIndex(re, "n")),
              NamedCapture(match, re, "u"), NamedCapture(match, re, "d"))

\* lines 351-367 of firstTS: the %n text split on the dot
firstEpoch(parts, t1, t2) ==
    IF Len(parts) < 1 \/ Len(parts) > 2 THEN [t |-> ZeroTime, err |-> TRUE]
    ELSE IF t1.err THEN [t |-> ZeroTime, err |-> TRUE]
    ELSE IF t2.err THEN [t |-> ZeroTime, err |-> TRUE]
    ELSE [t |-> TimeUnix(t1.v, t2.v), err |-> FALSE]

firstEpochParts(parts) ==
    firstEpoch(parts, ParseInt(parts[1]),
               IF Len(parts) = 2 THEN ParseInt(parts[2]) ELSE [err |-> FALSE, v |-> 0])

\* firstTime with the %t capture looked at before the %m capture
firstTimeTFirst(matches, idxT, idxM, idxN) ==
    IF Len(matches) = 0 THEN [t |-> ZeroTime, err |-> FALSE]
    ELSE IF idxT # 0 /\ Len(matches[idxT]) > 0 THEN ParseTime("t", matches[idxT])
    ELSE IF idxM # 0 /\ Len(matches[idxM]) > 0 THEN ParseTime("m", matches[idxM])
    ELSE IF idxN # 0 /\ Len(matches[idxN]) > 0 THEN firstEpochParts(Split(matches[idxN]))
    ELSE [t |-> ZeroTime, err |-> FALSE]

\* lines 331-369 of firstTS, the first match and the indices found
firstTime(matches, idxT, idxM, idxN) ==
    IF Len(matches) = 0 THEN [t |-> ZeroTime, err |-> FALSE]
    ELSE IF idxM # 0 /\ Len(matches[idxM]) > 0 THEN ParseTime("m", matches[idxM])
    ELSE IF idxT # 0 /\ Len(matches[idxT]) > 0 THEN ParseTime("t", matches[idxT])
    ELSE IF idxN # 0 /\ Len(matches[idxN]) > 0 THEN firstEpochParts(Split(matches[idxN]))
    ELSE [t |-> ZeroTime, err |-> FALSE]

firstTS(buf, re) ==
    firstTime(FindSubmatch(re, buf), SubexpIndex(re, "t"), SubexpIndex(re, "m"),
              SubexpIndex(re, "n"))

(***************************************************************************)
(* Log entries and the results sink.  A text is a sequence of pieces: the  *)
(* bytes of the file, with the level marker of its first line taken off.   *)
(* The pieces that the classifier tells apart:                             *)
(*   "deadlock detected"                                                   *)
(*   "ae:json" "ae:xml" "ae:yaml" "ae:text"  `duration: 1.5 ms  plan:\n'   *)
(*       followed by `{', by `<explain xml', by a quoted and by a bare     *)
(*       `Query Text:' line; "ae:bare" is followed by none of them         *)
(*   "ae:text+av"  a text plan whose query text holds the signature of     *)
(*       an autovacuum line                                                *)
(*   "av:elapsed"  `automatic vacuum of table "public.orders": index       *)
(*       scans: 1 ..., elapsed: 12.34 s';  "av:noelapsed" lacks the        *)
(*       elapsed marker                                                    *)
(* Query and Plan of a captured plan are not modelled.                     *)
(***************************************************************************)
severities == {"DEBUG", "LOG", "INFO", "NOTICE", "WARNING", "ERROR", "FATAL", "PANIC"}

\* logEntry{}
ZeroEntry ==
    [t |-> ZeroTime, user |-> <<>>, db |-> <<>>, level |-> "", line |-> <<>>,
     extra |-> <<>>]

EmptyResult == [Plans |-> <<>>, AutoVacuums |-> <<>>, Deadlocks |-> <<>>]

\* rxLogLevel = ^([A-Z]+):\s+ on a line: the marker it finds and the text
\* that is left
LogLevel(line) ==
    IF line # <<>> /\ line[1] = "E"
    THEN [level |-> "ERROR", line |-> <<"deadlock detected">> \o Tail(line)]
    ELSE IF line # <<>> /\ line[1] = "D"
    THEN [level |-> "DETAIL", line |-> <<"Process 1 waits">> \o Tail(line)]
    ELSE [level |-> "", line |-> line]

\* rxAEStart (anchored at the start of the text): which of the groups 1..4
\* is the first non-empty one, 0 when none; ok is sm != nil
AEStart(line) ==
    IF line = <<>> THEN [ok |-> FALSE, grp |-> 0]
    ELSE CASE line[1] = "ae:json"    -> [ok |-> TRUE, grp |-> 1]
           [] line[1] = "ae:xml"     -> [ok |-> TRUE, grp |-> 2]
           [] line[1] = "ae:yaml"    -> [ok |-> TRUE, grp |-> 3]
           [] line[1] = "ae:text"    -> [ok |-> TRUE, grp |-> 4]
           [] line[1] = "ae:text+av" -> [ok |-> TRUE, grp |-> 4]
           [] line[1] = "ae:bare"    -> [ok |-> TRUE, grp |-> 0]
           [] OTHER                  -> [ok |-> FALSE, grp |-> 0]

\* rxAVStart (not anchored): group 3 is the table
AVStart(line) ==
    IF \E k \in 1..Len(line) : line[k] \in {"av:elapsed", "av:noelapsed", "ae:text+av"}
    THEN [ok |-> TRUE, table |-> "public.orders"]
    ELSE [ok |-> FALSE, table |-> ""]

\* rxAVElapsed (not anchored): group 1 is the number of seconds
AVElapsed(line) ==
    IF \E k \in 1..Len(line) : line[k] = "av:elapsed"
    THEN [ok |-> TRUE, elapsed |-> "12.34"]
    ELSE [ok |-> FALSE, elapsed |-> ""]

\* strings.ReplaceAll(s, "\t", "")
StripTabs(s) == SelectSeq(s, LAMBDA ch : ch # "\t")

\* logEntry.get
RECURSIVE GetFrom(_, _, _)
GetFrom(extra, level, k) ==
    IF k > Len(extra) THEN <<>>
    ELSE IF extra[k].level = level THEN extra[k].line
    ELSE GetFrom(extra, level, k + 1)

\* get with the last sub-part of the level returned
getLast(l, level) ==
    IF \A k \in 1..Len(l.extra) : l.extra[k].level # level THEN <<>>
    ELSE l.extra[CHOOSE k \in 1..Len(l.extra) :
                     /\ l.extra[k].level = level
                     /\ \A h \in (k + 1)..Len(l.extra) : l.extra[h].level # level].line

get(l, level) == GetFrom(l.extra, level, 1)

(***************************************************************************)
(* The collector: c.currLog and c.result are its fields.  Three history    *)
(* fields record one readLogLines invocation: nstarted counts the entries  *)
(* started (line 199), src is the ordinal of the current entry among them  *)
(* (0 when the current entry was not started by this invocation), and      *)
(* handed lists every entry passed to processLogEntry, with its src.       *)
(***************************************************************************)
processAE(c, sm) ==
    LET e == c.currLog
        p == [Database |-> e.db, UserName |-> e.user, At |-> e.t,
              Format |-> CASE sm.grp = 1 -> "json"
                           [] sm.grp = 2 -> "xml"
                           [] sm.grp = 3 -> "yaml"
                           [] OTHER      -> "text"]
    IN  [c EXCEPT !.result.Plans = Append(@, p)]

processAV(c, sm) ==
    LET e   == c.currLog
        sm2 == AVElapsed(e.line)
    IN  IF ~sm2.ok THEN c
        ELSE [c EXCEPT !.result.AutoVacuums =
                 Append(@, [At |-> e.t, Table |-> sm.table, Elapsed |-> sm2.elapsed])]

processDeadlock(c) ==
    LET e    == c.currLog
        text == StripTabs(get(e, "DETAIL")) \o <<"\n">>
    IN  [c EXCEPT !.result.Deadlocks = Append(@, [At |-> e.t, Detail |-> text])]

\* the history of the call: the current entry is handed over
Handed(c) == [c EXCEPT !.handed = Append(@, [src |-> c.src, e |-> c.currLog])]

\* classify with the autovacuum check tried before the auto-explain check
classifyAVFirst(h) ==
    IF AVStart(h.currLog.line).ok THEN processAV(h, AVStart(h.currLog.line))
    ELSE IF AEStart(h.currLog.line).ok THEN processAE(h, AEStart(h.currLog.line))
    ELSE IF h.currLog.line = <<"deadlock detected">> THEN processDeadlock(h)
    ELSE h

classify(h) ==
    IF AEStart(h.currLog.line).ok THEN processAE(h, AEStart(h.currLog.line))
    ELSE IF AVStart(h.currLog.line).ok THEN processAV(h, AVStart(h.currLog.line))
    ELSE IF h.currLog.line = <<"deadlock detected">> THEN processDeadlock(h)
    ELSE h

processLogEntry(c) == classify(Handed(c))

\* line 199: start new entry
startEntry(f, e) ==
    [f EXCEPT !.currLog = e, !.nstarted = @ + 1, !.src = f.nstarted + 1]

\* processLogLine with the extra list assigned instead of appended to
processLogLineAssigns(c, first, t, user, db, level, line) ==
    IF level \in severities
    THEN startEntry(IF ~first THEN processLogEntry(c) ELSE c,
                    [t |-> t, user |-> user, db |-> db, level |-> level,
                     line |-> line, extra |-> <<>>])
    ELSE [c EXCEPT !.currLog.extra = <<[level |-> level, line |-> line]>>]

processLogLine(c, first, t, user, db, level, line) ==
    IF level \in severities
    THEN startEntry(IF ~first THEN processLogEntry(c) ELSE c,
                    [t |-> t, user |-> user, db |-> db, level |-> level,
                     line |-> line, extra |-> <<>>])
    ELSE [c EXCEPT !.currLog.extra = Append(@, [level |-> level, line |-> line])]

(***************************************************************************)
(* State.                                                                  *)
(***************************************************************************)
VARIABLES
    prefix,   \* the compiled log_line_prefix (readLog, lines 36-40)
    file,     \* the bytes of the log file
    c,        \* the collector: currLog, result, and the history fields
    pc,       \* where readLogLines stands: idle, scan, load, fwd, done;
              \* driver while the handlers are called one by one
    start,    \* the window start of the current invocation
    flen,     \* the file length found by Seek(0, 2)
    ofs,      \* the offset of the backward scan
    bigbuf,   \* what is left of the big block of the forward pass
    pos,      \* the current prefix match in bigbuf, <<>> for nil
    count,    \* in-window lines processed so far
    retval,   \* what readLogLines returned: none, nil, error
    sink0,    \* history: c.result when the invocation began
    iters,    \* history: iterations of the forward loop so far
    reads,    \* history: invocations begun on this collector
    ended,    \* history: why the invocation ended
    hit,      \* history: the scan stopped at a block older than start
    call,     \* history: the last handler call of the driver
    setting,  \* the log_line_prefix setting (readLog, lines 28-34)
    decoded,  \* what firstTS and getMatchData made of the text in file
    prev,     \* history: the invocation before the current one
    visited   \* history: the block offsets the backward scan has read

vars == <<prefix, file, c, pc, start, flen, ofs, bigbuf, pos, count, retval,
          sink0, iters, reads, ended, hit, call, setting, decoded, prev, visited>>

NoCall ==
    [op |-> "none", n |-> 0, first |-> FALSE, t |-> ZeroTime, user |-> <<>>,
     db |-> <<>>, level |-> "", line |-> <<>>]

\* what list new holds after the elements of old
NewFacts(old, new) == SubSeq(new, Len(old) + 1, Len(new))

\* the facts sink r holds that sink r0 did not hold yet
Appended(r0, r) ==
    [Plans |-> NewFacts(r0.Plans, r.Plans),
     AutoVacuums |-> NewFacts(r0.AutoVacuums, r.AutoVacuums),
     Deadlocks |-> NewFacts(r0.Deadlocks, r.Deadlocks)]

\* nothing decoded yet
NoDecoded == [first |-> [t |-> ZeroTime, err |-> FALSE],
              data |-> [t |-> ZeroTime, user |-> <<>>, db |-> <<>>, err |-> FALSE],
              matched |-> FALSE]

\* no invocation has gone before
NoPrev == [reads |-> 0, start |-> 0, retval |-> "none", ended |-> "",
           facts |-> EmptyResult]

NewCollector ==
    [currLog |-> ZeroEntry, result |-> EmptyResult, src |-> 0, nstarted |-> 0,
     handed |-> <<>>]

(***************************************************************************)
(* The inputs: a prefix format, a log file written with it, the window     *)
(* starts.                                                                 *)
(***************************************************************************)
Formats == {<<"%", "t">>, <<"%", "n">>, <<"%", "q", "%", "t">>}

\* the timestamp texts the server writes for a format
StampTexts(fmt) ==
    IF fmt = <<"%", "n">>
    THEN {<<"1", ".", "0">>, <<"2", "1", ".", "0">>}
    ELSE {<<"T1">>, <<"T2">>, <<"T?">>}

Bodies == {"E", "D"}

LogLines(fmt) == {ts \o <<b, "\n">> : ts \in StampTexts(fmt), b \in Bodies}

RECURSIVE FilesOf(_, _)
FilesOf(fmt, n) ==
    IF n = 0 THEN {<<>>}
    ELSE {f \o l : f \in FilesOf(fmt, n - 1), l \in LogLines(fmt)}

Files(fmt) == UNION {FilesOf(fmt, n) : n \in 0..MaxLines}

WindowStarts == {1, 2}

Init ==
    /\ setting \in Formats
    /\ prefix = compilePrefix(setting)
    /\ file \in Files(setting)
    /\ c = NewCollector
    /\ pc = "idle"
    /\ start = 0
    /\ flen = 0
    /\ ofs = 0
    /\ bigbuf = <<>>
    /\ pos = <<>>
    /\ count = 0
    /\ retval = "none"
    /\ sink0 = EmptyResult
    /\ iters = 0
    /\ reads = 0
    /\ ended = ""
    /\ hit = FALSE
    /\ call = NoCall
    /\ decoded = NoDecoded
    /\ prev = NoPrev
    /\ visited = <<>>

(***************************************************************************)
(* readLogLines.                                                           *)
(***************************************************************************)
\* bigbuf[from:]
From(buf, from) == SubSeq(buf, from + 1, Len(buf))

\* what every invocation sets when it begins
Begin(s) ==
    /\ pc \in {"idle", "done"}
    /\ reads < MaxReads
    /\ s >= start
    /\ start' = s
    /\ reads' = reads + 1
    /\ sink0' = c.result
    /\ c' = [c EXCEPT !.src = 0, !.nstarted = 0, !.handed = <<>>]
    /\ iters' = 0
    /\ hit' = FALSE
    /\ count' = 0
    /\ bigbuf' = <<>>
    /\ pos' = <<>>
    /\ prev' = [reads |-> reads, start |-> start, retval |-> retval,
                 ended |-> ended, facts |-> Appended(sink0, c.result)]
    /\ visited' = <<>>
    /\ UNCHANGED <<prefix, file, call, setting, decoded>>

\* lines 49-72: open, find the length, return on an empty file
StartRead(s) ==
    /\ Begin(s)
    /\ flen' = Len(file)
    /\ IF Len(file) <= 0
       THEN /\ pc' = "done"
            /\ retval' = "nil"
            /\ ended' = "empty"
            /\ ofs' = 0
       ELSE /\ pc' = "scan"
            /\ retval' = "none"
            /\ ended' = ""
            /\ ofs' = Len(file) - BlockSize

\* lines 49-63: os.Open or the Seek to the end fails
StartReadIOFail(s) ==
    /\ Begin(s)
    /\ pc' = "done"
    /\ retval' = "error"
    /\ ended' = "io"
    /\ UNCHANGED <<flen, ofs>>

\* lines 74-76: a negative offset is the start of the file
Clamp(o) == IF o < 0 THEN 0 ELSE o

\* the BlockSize bytes at offset o
Block(o) == SubSeq(file, o + 1, o + BlockSize)

\* ScanTurn without the break at the top of the file (lines 100-103)
ScanTurnNoTopBreak(o, ts) ==
    IF ts.err
    THEN /\ pc' = "done" /\ retval' = "error" /\ ended' = "scandecode"
         /\ ofs' = o /\ hit' = hit
    ELSE IF ts.t # ZeroTime /\ ts.t < start
    THEN /\ pc' = "load" /\ ofs' = o /\ hit' = TRUE
         /\ UNCHANGED <<retval, ended>>
    ELSE /\ pc' = "scan" /\ ofs' = o - BlockSize /\ hit' = hit
         /\ UNCHANGED <<retval, ended>>

\* lines 83-104: the block at offset o read in full, ts what firstTS made
\* of it
ScanTurn(o, ts) ==
    IF ts.err
    THEN /\ pc' = "done" /\ retval' = "error" /\ ended' = "scandecode"
         /\ ofs' = o /\ hit' = hit
    ELSE IF ts.t # ZeroTime /\ ts.t < start
    THEN /\ pc' = "load" /\ ofs' = o /\ hit' = TRUE
         /\ UNCHANGED <<retval, ended>>
    ELSE IF o = 0
    THEN /\ pc' = "load" /\ ofs' = o /\ hit' = hit
         /\ UNCHANGED <<retval, ended>>
    ELSE /\ pc' = "scan" /\ ofs' = o - BlockSize /\ hit' = hit
         /\ UNCHANGED <<retval, ended>>

\* line 83: io.ReadFull meets the end of the file before the block is full
ShortRead(o) ==
    /\ pc' = "done" /\ retval' = "error" /\ ended' = "short"
    /\ ofs' = o /\ hit' = hit

\* lines 73-105: one turn of the backward scan
ScanBlock ==
    /\ pc = "scan"
    /\ IF Clamp(ofs) + BlockSize > flen
       THEN ShortRead(Clamp(ofs))
       ELSE ScanTurn(Clamp(ofs), firstTS(Block(Clamp(ofs)), prefix))
    /\ visited' = Append(visited, Clamp(ofs))
    /\ UNCHANGED <<prefix, file, c, start, flen, bigbuf, pos, count, sink0,
                   iters, reads, call, setting, decoded, prev>>

\* lines 77-85: the Seek or the read of a block fails in the file system
ScanIOFail ==
    /\ pc = "scan"
    /\ pc' = "done"
    /\ retval' = "error"
    /\ ended' = "io"
    /\ UNCHANGED <<prefix, file, c, start, flen, ofs, bigbuf, pos, count, sink0,
                   iters, reads, hit, call, setting, decoded, prev, visited>>

\* lines 108-117: read the file from ofs on, find the first prefix match
Load ==
    /\ pc = "load"
    /\ pc' = "fwd"
    /\ bigbuf' = From(file, ofs)
    /\ pos' = FindIndex(prefix, From(file, ofs))
    /\ count' = 0
    /\ UNCHANGED <<prefix, file, c, start, flen, ofs, retval, sink0, iters,
                   reads, ended, hit, call, setting, decoded, prev, visited>>

\* LoadIOFail for a forward pass that reads the file piece by piece: the
\* read can fail after lines have been processed
LoadIOFailMidPass ==
    /\ pc \in {"load", "fwd"}
    /\ pc' = "done"
    /\ retval' = "error"
    /\ ended' = "io"
    /\ UNCHANGED <<prefix, file, c, start, flen, ofs, bigbuf, pos, count, sink0,
                   iters, reads, hit, call, setting, decoded, prev, visited>>

\* lines 108-114: the Seek or the read of the big block fails
LoadIOFail ==
    /\ pc = "load"
    /\ pc' = "done"
    /\ retval' = "error"
    /\ ended' = "io"
    /\ UNCHANGED <<prefix, file, c, start, flen, ofs, bigbuf, pos, count, sink0,
                   iters, reads, hit, call, setting, decoded, prev, visited>>

\* ForwardDecodeError with the error handed to the caller (return err)
ForwardDecodeErrorReturned ==
    /\ pc' = "done"
    /\ retval' = "error"
    /\ ended' = "fwddecode"
    /\ UNCHANGED <<c, bigbuf, pos, count>>

\* lines 122-124: getMatchData failed
ForwardDecodeError ==
    /\ pc' = "done"
    /\ retval' = "nil"
    /\ ended' = "fwddecode"
    /\ UNCHANGED <<c, bigbuf, pos, count>>

\* lines 137-140: remove a single final \n if present
StripNewline(line) ==
    IF Len(line) > 0 /\ line[Len(line)] = "\n"
    THEN SubSeq(line, 1, Len(line) - 1)
    ELSE line

\* lines 142-148: the level taken off, the line handed to processLogLine
HandLine(d, lv) ==
    /\ c' = processLogLine(c, count = 0, d.t, d.user, d.db, lv.level, lv.line)
    /\ count' = count + 1

\* lines 136-149: the line of a match, when it is in the window
ProcessLine(d, line) ==
    IF ~(d.t < start)
    THEN HandLine(d, LogLevel(StripNewline(line)))
    ELSE UNCHANGED <<c, count>>

\* lines 127-133: the text up to the next match pos2, or to the end
LineOf(pos2) ==
    IF pos2 = <<>> THEN From(bigbuf, pos[2])
    ELSE SubSeq(bigbuf, pos[2] + 1, pos[2] + pos2[1])

\* lines 121-149: the match decoded to d, the next match found at pos2
ForwardBody(d, pos2) ==
    IF d.err
    THEN ForwardDecodeError
    ELSE /\ bigbuf' = IF pos2 = <<>> THEN bigbuf ELSE From(bigbuf, pos[2])
         /\ pos' = pos2
         /\ ProcessLine(d, LineOf(pos2))
         /\ UNCHANGED <<pc, retval, ended>>

\* lines 118-150: one iteration of the forward loop
ForwardStep ==
    /\ pc = "fwd"
    /\ Len(pos) = 2 /\ Len(bigbuf) > 0
    /\ iters < MaxIters
    /\ iters' = iters + 1
    /\ ForwardBody(getMatchData(FindSubmatch(prefix, From(bigbuf, pos[1])), prefix),
                   FindIndex(prefix, From(bigbuf, pos[2])))
    /\ UNCHANGED <<prefix, file, start, flen, ofs, sink0, reads, hit, call, setting, decoded, prev, visited>>

\* lines 152-155: the loop is over
ForwardEnd ==
    /\ pc = "fwd"
    /\ ~(Len(pos) = 2 /\ Len(bigbuf) > 0)
    /\ c' = IF count > 0 THEN processLogEntry(c) ELSE c
    /\ pc' = "done"
    /\ retval' = "nil"
    /\ ended' = "eof"
    /\ UNCHANGED <<prefix, file, start, flen, ofs, bigbuf, pos, count, sink0,
                   iters, reads, hit, call, setting, decoded, prev, visited>>

Next ==
    \/ \E s \in WindowStarts : StartRead(s)
    \/ \E s \in WindowStarts : StartReadIOFail(s)
    \/ ScanBlock
    \/ ScanIOFail
    \/ Load
    \/ LoadIOFail
    \/ ForwardStep
    \/ ForwardEnd

Spec == Init /\ [][Next]_vars

(***************************************************************************)
(* The handlers driven one call at a time: processLogLine and              *)
(* processLogEntry on any collector state, with any arguments.             *)
(***************************************************************************)
DriverStamps ==
    {[t |-> 1, user |-> <<"1">>, db |-> <<"2">>],
     [t |-> 2, user |-> <<"2">>, db |-> <<"1">>]}

DriverLines ==
    {[level |-> "LOG", line |-> <<"ae:json">>],
     [level |-> "LOG", line |-> <<"ae:text+av">>],
     [level |-> "LOG", line |-> <<"av:elapsed">>],
     [level |-> "LOG", line |-> <<"av:noelapsed">>],
     [level |-> "ERROR", line |-> <<"deadlock detected">>],
     [level |-> "LOG", line |-> <<"other">>],
     [level |-> "DETAIL", line |-> <<"Process 1 waits", "\t">>],
     [level |-> "DETAIL", line |-> <<"Process 2 waits">>],
     [level |-> "", line |-> <<"av:elapsed">>]}

DriverInit ==
    /\ setting = <<"%", "t">>
    /\ prefix = compilePrefix(setting)
    /\ file = <<>>
    /\ c = NewCollector
    /\ pc = "driver"
    /\ start = 0
    /\ flen = 0
    /\ ofs = 0
    /\ bigbuf = <<>>
    /\ pos = <<>>
    /\ count = 0
    /\ retval = "none"
    /\ sink0 = EmptyResult
    /\ iters = 0
    /\ reads = 0
    /\ ended = ""
    /\ hit = FALSE
    /\ call = NoCall
    /\ decoded = NoDecoded
    /\ prev = NoPrev
    /\ visited = <<>>

DriverFrame ==
    UNCHANGED <<prefix, file, pc, start, flen, ofs, bigbuf, pos, count, retval,
                sink0, iters, reads, ended, hit, setting, decoded, prev, visited>>

CallProcessLogLine(first, st, l) ==
    /\ pc = "driver"
    /\ call.n < MaxCalls
    /\ c' = processLogLine(c, first, st.t, st.user, st.db, l.level, l.line)
    /\ call' = [op |-> "line", n |-> call.n + 1, first |-> first, t |-> st.t,
                user |-> st.user, db |-> st.db, level |-> l.level, line |-> l.line]
    /\ DriverFrame

CallProcessLogEntry ==
    /\ pc = "driver"
    /\ call.n < MaxCalls
    /\ c' = processLogEntry(c)
    /\ call' = [NoCall EXCEPT !.op = "entry", !.n = call.n + 1]
    /\ DriverFrame

DriverNext ==
    \/ \E first \in BOOLEAN, st \in DriverStamps, l \in DriverLines :
          CallProcessLogLine(first, st, l)
    \/ CallProcessLogEntry

SpecHandlers == DriverInit /\ [][DriverNext]_vars

(***************************************************************************)
(* readLog on any setting: lines 28-40, the setting compiled.              *)
(***************************************************************************)
FormatChars == {"%", "t", "m", "n", "q", "x"}

RECURSIVE Strings(_, _)
Strings(chars, n) ==
    IF n = 0 THEN {<<>>}
    ELSE {s \o <<ch>> : s \in Strings(chars, n - 1), ch \in chars}

Settings == UNION {Strings(FormatChars, n) : n \in 0..MaxFormat}

\* the prefixRE of readLog before line 36
NotCompiled == [err |-> "none", atoms |-> <<>>, opt |-> 1]

\* a collector on which nothing has run
Quiet ==
    /\ c = NewCollector
    /\ start = 0
    /\ flen = 0
    /\ ofs = 0
    /\ bigbuf = <<>>
    /\ pos = <<>>
    /\ count = 0
    /\ retval = "none"
    /\ sink0 = EmptyResult
    /\ iters = 0
    /\ reads = 0
    /\ ended = ""
    /\ hit = FALSE
    /\ call = NoCall
    /\ decoded = NoDecoded
    /\ prev = NoPrev
    /\ visited = <<>>

PrefixInit ==
    /\ setting \in Settings
    /\ prefix = NotCompiled
    /\ file = <<>>
    /\ pc = "readLog"
    /\ Quiet

\* lines 36-40: compilePrefix, and the return when it fails
CompileSetting ==
    /\ pc = "readLog"
    /\ prefix' = compilePrefix(setting)
    /\ pc' = IF compilePrefix(setting).err = "" THEN "compiled" ELSE "failed"
    /\ UNCHANGED <<file, c, start, flen, ofs, bigbuf, pos, count, retval, sink0,
                   iters, reads, ended, hit, call, setting, decoded, prev, visited>>

SpecPrefix == PrefixInit /\ [][CompileSetting]_vars

(***************************************************************************)
(* The two decoders on any text: firstTS as the backward scan calls it on  *)
(* a block (line 86), getMatchData as the forward pass calls it on the     *)
(* submatches of a prefix match (lines 120-121).                           *)
(***************************************************************************)
DecodeSettings ==
    {<<"%", "t">>, <<"%", "m">>, <<"%", "n">>,
     <<"%", "t", "%", "m">>, <<"%", "m", "%", "t">>,
     <<"%", "n", "%", "t">>, <<"%", "t", "%", "n">>,
     <<"%", "q", "%", "n">>, <<"%", "m", "%", "q", "%", "t">>}

DecodeBytes == {"1", "2", ".", "T1", "T2", "M1", "M?"}

DecodeTexts == UNION {Strings(DecodeBytes, n) : n \in 0..MaxText}

DecodeInit ==
    /\ setting \in DecodeSettings
    /\ prefix = compilePrefix(setting)
    /\ file \in DecodeTexts
    /\ pc = "decode"
    /\ Quiet

DecodeFrame ==
    UNCHANGED <<prefix, file, c, start, flen, ofs, bigbuf, pos, count, retval,
                sink0, iters, reads, ended, hit, call, setting, prev, visited>>

\* the text holds a prefix match: both decoders are run on it
DecodeMatch ==
    /\ pc = "decode"
    /\ FindSubmatch(prefix, file) # <<>>
    /\ decoded' = [first |-> firstTS(file, prefix),
                   data |-> getMatchData(FindSubmatch(prefix, file), prefix),
                   matched |-> TRUE]
    /\ pc' = "decoded"
    /\ DecodeFrame

\* the text holds no prefix match: the forward loop has nothing to hand to
\* getMatchData (line 118)
DecodeNoMatch ==
    /\ pc = "decode"
    /\ FindSubmatch(prefix, file) = <<>>
    /\ decoded' = [NoDecoded EXCEPT !.first = firstTS(file, prefix)]
    /\ pc' = "decoded"
    /\ DecodeFrame

DecodeNext == DecodeMatch \/ DecodeNoMatch

SpecDecode == DecodeInit /\ [][DecodeNext]_vars

(***************************************************************************)
(* The claims.                                                             *)
(***************************************************************************)
\* the prefixed lines of a whole file, as a forward pass from offset 0
\* finds them: the offset of each and what its prefix decodes to
RECURSIVE LinesFrom(_, _, _)
LineAt(re, buf, base, m) ==
    IF ~m.ok \/ MatchEnd(m) = 0 THEN <<>>
    ELSE <<[ofs |-> base + m.s, d |-> getMatchData(SubmatchOf(re, buf, m), re)]>>
         \o LinesFrom(re, From(buf, MatchEnd(m)), base + MatchEnd(m))

LinesFrom(re, buf, base) ==
    IF buf = <<>> THEN <<>> ELSE LineAt(re, buf, base, FindFrom(re, buf, 0))

Monotone(ls) ==
    \A k \in 1..Len(ls) :
        /\ ~ls[k].d.err
        /\ ls[k].d.t # ZeroTime
        /\ k > 1 => ls[k - 1].d.t <= ls[k].d.t

NoneBefore(ls, o) == \A k \in 1..Len(ls) : ls[k].d.t >= start => ls[k].ofs >= o

\* C1: in a file whose prefixed lines carry non-decreasing timestamps, once
\* the backward scan has ended without an error no line whose timestamp is
\* not before start lies before the offset ofs of the forward pass.
C1_WindowLocator ==
    (pc = "load" /\ Monotone(LinesFrom(prefix, file, 0)))
        => NoneBefore(LinesFrom(prefix, file, 0), ofs)

\* C2: for a non-empty file of any length, when no block of the scan held
\* a timestamp before start (and the file system and the decoder failed
\* nowhere), readLogLines returns no error and the forward pass starts at
\* offset 0, on the whole file.
C2_WholeFileRead ==
    (reads > 0 /\ flen > 0 /\ ~hit /\ ended \notin {"io", "scandecode"})
        => /\ retval # "error"
           /\ pc = "fwd" => ofs = 0
           /\ (pc = "fwd" /\ iters = 0) => bigbuf = file

\* C3: every iteration of the forward loop makes progress: it ends the
\* loop (no next match, or a return) or leaves fewer bytes in bigbuf.
C3_ForwardProgress ==
    [][(pc = "fwd" /\ iters' = iters + 1)
          => (pc' = "done" \/ pos' = <<>> \/ Len(bigbuf') < Len(bigbuf))]_vars

\* the ordinals of the handed entries that this invocation started
OwnHanded == SelectSeq([k \in 1..Len(c.handed) |-> c.handed[k].src], LAMBDA n : n > 0)

\* C4: the entries an invocation starts are handed to processLogEntry once
\* each and in file order, each before the next one starts, and the last
\* one by the time readLogLines returns: none is dropped.
C4_Sealing ==
    pc \in {"fwd", "done"} =>
        /\ OwnHanded = [k \in 1..Len(OwnHanded) |-> k]
        /\ Len(OwnHanded) \in {c.nstarted - 1, c.nstarted}
        /\ (pc = "done" /\ retval = "nil") => Len(OwnHanded) = c.nstarted

\* C5: a line whose level is not a severity, handed to processLogLine after
\* a start line, becomes the last element of the extra list of the current
\* entry; the earlier extras, the timestamp, user, database, level and text
\* of the entry stay, no entry is started and none is classified.
C5_ContinuationAppended ==
    [][(call'.op = "line" /\ call'.n = call.n + 1 /\ call'.level \notin severities
            /\ c.currLog.level \in severities)
          => /\ c'.currLog = [c.currLog EXCEPT
                   !.extra = Append(@, [level |-> call'.level, line |-> call'.line])]
             /\ c'.result = c.result
             /\ c'.handed = c.handed
             /\ c'.nstarted = c.nstarted]_vars

C5_Witness ==
    /\ call.op = "line" /\ call.level = "DETAIL"
    /\ c.currLog.level \in severities
    /\ c.currLog.user # call.user
    /\ Len(c.currLog.extra) = 2
    /\ c.currLog.extra[1].level = ""
    /\ c.currLog.extra[2] = [level |-> call.level, line |-> call.line]

InWindow(facts) == \A k \in 1..Len(facts) : facts[k].At >= start

\* the handed entries that are deadlock reports, in the order handed
HandedDeadlocks ==
    SelectSeq(c.handed, LAMBDA h : h.e.line = <<"deadlock detected">>)

\* C6: every fact an invocation appends to the sink comes from an entry
\* whose timestamp is not before the window start, and the facts come in
\* the file order of their entries.
C6_WindowFilter ==
    pc \in {"fwd", "done"} =>
        /\ InWindow(NewFacts(sink0.Plans, c.result.Plans))
        /\ InWindow(NewFacts(sink0.AutoVacuums, c.result.AutoVacuums))
        /\ InWindow(NewFacts(sink0.Deadlocks, c.result.Deadlocks))
        /\ Len(NewFacts(sink0.Deadlocks, c.result.Deadlocks)) = Len(HandedDeadlocks)
        /\ \A k \in 1..Len(HandedDeadlocks) :
              NewFacts(sink0.Deadlocks, c.result.Deadlocks)[k].At = HandedDeadlocks[k].e.t

\* the forward loop stands at a match whose timestamp does not decode
DecodeFailsHere ==
    /\ pc = "fwd"
    /\ Len(pos) = 2 /\ Len(bigbuf) > 0
    /\ getMatchData(FindSubmatch(prefix, From(bigbuf, pos[1])), prefix).err

\* C7: at a match of the forward pass whose timestamp does not decode,
\* readLogLines returns nil, the sink and the current entry stay as they
\* are, and nothing is processed until the next invocation begins.
C7_DecodeErrorStops ==
    [][/\ DecodeFailsHere => (pc' = "done" /\ retval' = "nil" /\ c' = c /\ count' = count)
       /\ (pc = "done" /\ reads' = reads) => (c' = c /\ count' = count)]_vars

C7_Witness ==
    /\ pc = "done" /\ ended = "fwddecode" /\ retval = "nil"
    /\ Len(c.result.Deadlocks) > Len(sink0.Deadlocks)

\* the backward scan stands at a block whose first match does not decode
ScanDecodeFailsHere ==
    /\ pc = "scan"
    /\ Clamp(ofs) + BlockSize <= flen
    /\ firstTS(Block(Clamp(ofs)), prefix).err

\* C8: a block of the backward scan whose first match does not decode
\* counts as a block without a timestamp: the scan goes on to the next
\* block or to the forward pass, and readLogLines is not aborted.
C8_ScanDecodeSkipped ==
    [][(ScanDecodeFailsHere /\ ended' # "io")
          => (retval' # "error" /\ pc' \in {"scan", "load"})]_vars

\* C9: when readLogLines returns an error because the file could not be
\* opened, seeked or read in full, the sink is what it was when the
\* invocation began.
C9_AllOrNothing ==
    (pc = "done" /\ retval = "error" /\ ended \in {"io", "short"})
        => c.result = sink0

C9_Witness ==
    /\ pc = "done" /\ retval = "error" /\ ended = "io"
    /\ reads = 2 /\ flen > 0 /\ ofs < flen - BlockSize
    /\ c.result.Deadlocks # <<>>

\* b is a, or a with one element appended
SameOrOneMore(a, b) ==
    \/ b = a
    \/ Len(b) = Len(a) + 1 /\ SubSeq(b, 1, Len(a)) = a

Total(r) == Len(r.Plans) + Len(r.AutoVacuums) + Len(r.Deadlocks)

\* what one processLogEntry call on entry e may do to the sink r
ClassifiedOnce(e, r, q) ==
    /\ SameOrOneMore(r.Plans, q.Plans)
    /\ SameOrOneMore(r.AutoVacuums, q.AutoVacuums)
    /\ SameOrOneMore(r.Deadlocks, q.Deadlocks)
    /\ Total(q) <= Total(r) + 1
    /\ IF AEStart(e.line).ok
       THEN /\ Len(q.Plans) = Len(r.Plans) + 1
            /\ q.Plans[Len(q.Plans)].At = e.t
       ELSE IF AVStart(e.line).ok
       THEN /\ q.Plans = r.Plans /\ q.Deadlocks = r.Deadlocks
            /\ Len(q.AutoVacuums) = Len(r.AutoVacuums) + 1 <=> AVElapsed(e.line).ok
       ELSE IF e.line = <<"deadlock detected">>
       THEN Len(q.Deadlocks) = Len(r.Deadlocks) + 1
       ELSE q = r

\* C10: a processLogEntry call appends no fact or one fact in all to the
\* three lists and leaves their elements as they are; the auto-explain
\* check comes first, then the autovacuum check, then the deadlock check,
\* and only the extractor of the first check that holds runs.
C10_OneFactPerEntry ==
    [][/\ (call'.op = "entry" /\ call'.n = call.n + 1)
            => (ClassifiedOnce(c.currLog, c.result, c'.result) /\ c'.currLog = c.currLog)
       /\ (call'.op = "line" /\ call'.n = call.n + 1)
            => IF call'.level \in severities /\ ~call'.first
               THEN ClassifiedOnce(c.currLog, c.result, c'.result)
               ELSE c'.result = c.result]_vars

C10_Witness ==
    /\ call.op = "entry" /\ call.n = 3
    /\ c.currLog.line = <<"ae:text+av">>
    /\ Len(c.result.Plans) = 1 /\ c.result.Plans[1].Format = "text"
    /\ Len(c.result.Deadlocks) = 1
    /\ c.result.AutoVacuums = <<>>

\* the characters that follow the % of the directives a left-to-right scan
\* of fmt meets from index i on: a % takes the character after it with it,
\* a % that ends the text is dropped
RECURSIVE DirectivesFrom(_, _)
DirectivesFrom(fmt, i) ==
    IF i > Len(fmt) THEN {}
    ELSE IF fmt[i] # "%" THEN DirectivesFrom(fmt, i + 1)
    ELSE IF i = Len(fmt) THEN {}
    ELSE {fmt[i + 1]} \cup DirectivesFrom(fmt, i + 2)

\* C11: compilePrefix fails with the error of the missing timestamp escape
\* sequence exactly when the directive scan of the setting meets none of
\* %t, %m, %n.
C11_NoTimestampError ==
    pc \in {"compiled", "failed"}
        => /\ prefix.err = "nots" <=> DirectivesFrom(setting, 1) \cap {"t", "m", "n"} = {}
           /\ pc = "failed" <=> prefix.err # ""

C11_Witness ==
    /\ pc = "failed"
    /\ setting = <<"%", "%", "t">>
    /\ prefix.err = "nots"

\* C12: a second readLogLines over the same file, with the same compiled
\* prefix and the same window start, appends the facts the first one
\* appended, whether or not the first ran on the same collector.
C12_Idempotent ==
    (/\ pc = "done" /\ retval = "nil"
     /\ prev.reads = 1 /\ prev.retval = "nil" /\ prev.start = start)
        => Appended(sink0, c.result) = prev.facts

\* the least n with n * d >= a
CeilDiv(a, d) == (a + d - 1) \div d

\* the first timestamp of the block at offset o is before start
StopsScan(o) ==
    /\ ~firstTS(Block(o), prefix).err
    /\ firstTS(Block(o), prefix).t # ZeroTime
    /\ firstTS(Block(o), prefix).t < start

\* C13: the backward scan reads the blocks at flen - BlockSize,
\* flen - 2 * BlockSize, ..., each clamped to 0, so no offset twice and at
\* most ceil(flen / BlockSize) blocks; it reads no block beyond offset 0 or
\* beyond a block whose first timestamp is before start, and it goes on to
\* the forward pass only from such a block.
C13_ScanProgress ==
    (pc \in {"scan", "load", "fwd", "done"} /\ flen > 0)
        => /\ \A k \in 1..Len(visited) : visited[k] = Clamp(flen - k * BlockSize)
           /\ \A k \in 1..Len(visited) : \A j \in (k + 1)..Len(visited) :
                  visited[j] < visited[k]
           /\ Len(visited) <= CeilDiv(flen, BlockSize)
           /\ \A k \in 1..(Len(visited) - 1) : visited[k] # 0 /\ ~StopsScan(visited[k])
           /\ pc = "load"
                  => /\ visited # <<>> /\ ofs = visited[Len(visited)]
                     /\ ofs = 0 \/ StopsScan(ofs)
                     /\ hit <=> StopsScan(ofs)

C13_Witness ==
    /\ pc = "load" /\ ~hit
    /\ visited = <<flen - BlockSize, flen - 2 * BlockSize, 0>>
    /\ flen - 3 * BlockSize < 0

\* the DETAIL sub-parts of entry e, in arrival order
Details(e) == SelectSeq(e.extra, LAMBDA x : x.level = "DETAIL")

\* the detail text of the deadlock event of entry e
DetailOf(e) ==
    (IF Details(e) = <<>> THEN <<>>
     ELSE SelectSeq(Details(e)[1].line, LAMBDA ch : ch # "\t")) \o <<"\n">>

\* what sealing entry e does to the list of deadlock events
DeadlockOnce(e, old, new) ==
    IF e.line = <<"deadlock detected">>
    THEN new = Append(old, [At |-> e.t, Detail |-> DetailOf(e)])
    ELSE new = old

\* C14: sealing an entry whose start text is `deadlock detected' appends
\* one Deadlock event, with the text of the first DETAIL sub-part of the
\* entry; sealing any other entry appends no Deadlock event.
C14_DeadlockDetail ==
    [][/\ (call'.op = "entry" /\ call'.n = call.n + 1)
            => DeadlockOnce(c.currLog, c.result.Deadlocks, c'.result.Deadlocks)
       /\ (call'.op = "line" /\ call'.n = call.n + 1)
            => IF call'.level \in severities /\ ~call'.first
               THEN DeadlockOnce(c.currLog, c.result.Deadlocks, c'.result.Deadlocks)
               ELSE c'.result.Deadlocks = c.result.Deadlocks]_vars

C14_Witness ==
    /\ call.op = "entry"
    /\ c.currLog.line = <<"deadlock detected">>
    /\ Len(Details(c.currLog)) = 2
    /\ Details(c.currLog)[1].line = <<"Process 2 waits">>
    /\ Details(c.currLog)[2].line # <<"Process 2 waits">>
    /\ c.result.Deadlocks = <<[At |-> c.currLog.t, Detail |-> <<"Process 2 waits", "\n">>]>>

\* the text the subexpression named kind captured in the decoded match
Captured(kind) == NamedCapture(FindSubmatch(prefix, file), prefix, kind)

\* the capture of %n is S.F, two runs of digits, and no other timestamp
\* capture comes before it
EpochCase ==
    /\ pc = "decoded" /\ decoded.matched
    /\ Captured("m") = <<>> /\ Captured("t") = <<>>
    /\ Len(Split(Captured("n"))) = 2
    /\ ~ParseInt(Split(Captured("n"))[1]).err
    /\ ~ParseInt(Split(Captured("n"))[2]).err

\* instant t lies in the second that begins at s
WithinSecond(s, t) == s <= t /\ t < s + 1

\* C15: an %n capture S.F decodes to an instant in the second S: the
\* fraction F adds less than one second.
C15_EpochDecoding ==
    EpochCase
        => /\ ~decoded.data.err /\ ~decoded.first.err
           /\ WithinSecond(ParseInt(Split(Captured("n"))[1]).v, decoded.data.t)
           /\ WithinSecond(ParseInt(Split(Captured("n"))[1]).v, decoded.first.t)

\* C16: on every prefix match firstTS and getMatchData return the same
\* instant and the same outcome, that of the first non-empty capture among
\* %m, %t, %n in this order; with the three captures empty both return the
\* zero instant and no error.
C16_DecodersAgree ==
    (pc = "decoded" /\ decoded.matched)
        => /\ decoded.first.t = decoded.data.t
           /\ decoded.first.err = decoded.data.err
           /\ Captured("m") # <<>>
                  => decoded.data.t = ParseTime("m", Captured("m")).t
                     /\ decoded.data.err = ParseTime("m", Captured("m")).err
           /\ (Captured("m") = <<>> /\ Captured("t") # <<>>)
                  => decoded.data.t = ParseTime("t", Captured("t")).t
                     /\ decoded.data.err = ParseTime("t", Captured("t")).err
           /\ (Captured("m") = <<>> /\ Captured("t") = <<>> /\ Captured("n") # <<>>)
                  => decoded.data.t # ZeroTime /\ ~decoded.data.err
           /\ (Captured("m") = <<>> /\ Captured("t") = <<>> /\ Captured("n") = <<>>)
                  => decoded.data.t = ZeroTime /\ ~decoded.data.err

C16_Witness ==
    /\ pc = "decoded" /\ decoded.matched
    /\ setting = <<"%", "t", "%", "m">>
    /\ Captured("t") = <<"T2">> /\ Captured("m") = <<"M1">>
    /\ decoded.first = [t |-> 1, err |-> FALSE]
    /\ decoded.data.t = 1

\* C17: every entry handed to processLogEntry in an invocation was started
\* by an in-window start line of that invocation: none is an entry that an
\* earlier invocation left in c.currLog, or one that no start line began.
C17_OwnLinesOnly ==
    pc \in {"fwd", "done"}
        => \A k \in 1..Len(c.handed) :
               /\ c.handed[k].src > 0
               /\ c.handed[k].e.level \in severities
               /\ c.handed[k].e.t >= start

====
